---- MODULE Spec2Model ----
(***************************************************************************)
(* Model of the THQMe scoring engine (utils/scoring.ts, adaptive-window    *)
(* revision): accScoreLinear, scoreClient and calcOverallScore; and of the *)
(* location store reducer with its per-device limits, of the line-name    *)
(* cache (hooks/use-line-names.ts) and of the WebSocket connection         *)
(* handling (hooks/useWebSocket.ts, LocationProvider).                     *)
(*                                                                         *)
(* JavaScript numbers are modelled as records [kind, n, d]: kind "fin" is  *)
(* the exact rational n/d (d > 0, lowest terms); the other kinds are the   *)
(* values undefined, null, NaN, +Infinity and -Infinity.  Arithmetic on    *)
(* finite values is exact rational arithmetic.                             *)
(***************************************************************************)
EXTENDS Integers, Sequences, FiniteSets, TLC

VARIABLES
    accIn,      \* arguments of the latest accScoreLinear call: [m, speedKmh]
    accOut,     \* value returned by the latest accScoreLinear call
    accPrev,    \* arguments and result of the call before it
    clients,    \* Client[]: sequence of [id, samples], samples a sequence of Sample
    now,        \* `now` argument of the latest calcOverallScore call (epoch ms)
    expectedHz, \* `expectedHz` argument of the latest calcOverallScore call
    raw,        \* raw[i] = scoreClient(clients[i], now, expectedHz) of the latest call
    result,     \* {p50, redRatio, yellowRatio, label} of the latest call
    updates,      \* LocationState.updates, newest first: entries [device, id]
    logs,         \* LocationState.logs, newest first: entries [device, id]
    messageCount, \* LocationState.messageCount
    deviceIds,    \* LocationState.deviceIds
    addedUpdates, \* every payload of ADD_UPDATE so far, newest first
    addedLogs,    \* every payload of ADD_LOG so far, newest first
    steps,        \* number of actions the reducer has handled since Init
    gqlUrl,       \* use-line-names: the GQL URL, "" when not configured
    cache,        \* use-line-names: cache, a function of id strings to names
    colorCache,   \* use-line-names: colorCache, a function of id strings to colours
    resolvedIds,  \* use-line-names: resolvedIds
    pendingIds,   \* use-line-names: pendingIds
    requests,     \* fetch calls not yet settled: records [n, ids, retryCount]
    timers,       \* retry timers not yet fired: records [n, ids, retryCount, delay]
    nFetch,       \* number of fetch calls made so far
    lineCalls,    \* number of fetchLineNames calls made by the application so far
    notified,     \* number of times the listeners were notified
    settled,      \* the request settled last: [n, ids, ok, lines], n = 0 when none
    url,                 \* useWebSocket: the option url, NoUrl when undefined
    autoReconnect,       \* useWebSocket: the option autoReconnect
    isConnected,         \* useWebSocket: the state isConnected
    manuallyClosedRef,   \* useWebSocket: manuallyClosedRef.current
    shouldReconnectRef,  \* LocationProvider: shouldReconnectRef.current
    reconnectDelayRef,   \* LocationProvider: reconnectDelayRef.current (ms)
    connectionStatus,    \* LocationProvider: state.connectionStatus
    error,               \* LocationProvider: state.error
    wsRef,               \* wsRef.current: a socket, NoSocket when null
    reconnectTimeoutRef, \* reconnectTimeoutRef.current: a timer id, NoTimeout when null
    readyState,          \* readyState of every WebSocket, "NONE" when there is no such object
    latestSocket,        \* the WebSocket constructed last, NoSocket when none was
    pendingTimeouts,     \* reconnect timers set and neither fired nor cleared: [id, delay]
    calls,               \* number of connect() and disconnect() calls of the application
    last                 \* what the latest step did: [op, ws, ignored, onClose, created, scheduled]

scoreVars == <<accIn, accOut, accPrev, clients, now, expectedHz, raw, result>>
storeVars == <<updates, logs, messageCount, deviceIds, addedUpdates, addedLogs, steps>>
lineVars == <<gqlUrl, cache, colorCache, resolvedIds, pendingIds, requests, timers,
              nFetch, lineCalls, notified, settled>>
hookVars == <<url, autoReconnect, isConnected, manuallyClosedRef>>
providerVars == <<shouldReconnectRef, reconnectDelayRef, connectionStatus, error>>
connVars == <<url, autoReconnect, isConnected, manuallyClosedRef, shouldReconnectRef,
              reconnectDelayRef, connectionStatus, error, wsRef, reconnectTimeoutRef,
              readyState, latestSocket, pendingTimeouts, calls, last>>
vars == <<accIn, accOut, accPrev, clients, now, expectedHz, raw, result,
          updates, logs, messageCount, deviceIds, addedUpdates, addedLogs, steps,
          gqlUrl, cache, colorCache, resolvedIds, pendingIds, requests, timers,
          nFetch, lineCalls, notified, settled,
          url, autoReconnect, isConnected, manuallyClosedRef, shouldReconnectRef,
          reconnectDelayRef, connectionStatus, error, wsRef, reconnectTimeoutRef,
          readyState, latestSocket, pendingTimeouts, calls, last>>

----------------------------------------------------------------------------
(* Numbers *)

Abs(x) == IF x < 0 THEN -x ELSE x

RECURSIVE GCD(_, _)
GCD(a, b) == IF b = 0 THEN a ELSE GCD(b, a % b)

\* the finite number n/d (d # 0), in lowest terms with a positive denominator
Fin(n, d) ==
    LET s == IF d < 0 THEN -1 ELSE 1
        g == GCD(Abs(n), Abs(d))
    IN  [kind |-> "fin", n |-> (s * n) \div g, d |-> (s * d) \div g]

Num(k) == Fin(k, 1)
Undefined == [kind |-> "undefined", n |-> 0, d |-> 1]
Null      == [kind |-> "null", n |-> 0, d |-> 1]
NaN       == [kind |-> "NaN", n |-> 0, d |-> 1]
PosInf    == [kind |-> "Infinity", n |-> 0, d |-> 1]
NegInf    == [kind |-> "-Infinity", n |-> 0, d |-> 1]

\* typeof x === "number" && Number.isFinite(x)
IsFiniteNumber(x) == x.kind = "fin"

Add(a, b) == Fin(a.n * b.d + b.n * a.d, a.d * b.d)
Sub(a, b) == Fin(a.n * b.d - b.n * a.d, a.d * b.d)
Mul(a, b) == Fin(a.n * b.n, a.d * b.d)
\* a / b: 0/0 is NaN, x/0 is +Infinity or -Infinity
Div(a, b) ==
    IF b.n # 0 THEN Fin(a.n * b.d, a.d * b.n)
    ELSE IF a.n = 0 THEN NaN
    ELSE IF a.n > 0 THEN PosInf ELSE NegInf

\* a <= b, a < b on finite numbers
Le(a, b) == a.n * b.d <= b.n * a.d
Lt(a, b) == a.n * b.d < b.n * a.d

\* the JavaScript comparison x >= k for a finite k: false for undefined and
\* NaN, null converts to 0
GeNum(x, k) ==
    CASE x.kind = "fin"       -> Le(k, x)
      [] x.kind = "Infinity"  -> TRUE
      [] x.kind = "null"      -> Le(k, Num(0))
      [] OTHER                -> FALSE

MinR(a, b) == IF Le(a, b) THEN a ELSE b
MaxR(a, b) == IF Le(a, b) THEN b ELSE a

\* Math.floor and Math.ceil of a finite number, as integers
Floor(a) == a.n \div a.d
Ceil(a)  == -((-a.n) \div a.d)

----------------------------------------------------------------------------
(* accScoreLinear *)

SpeedBoost_from0(speedKmh) ==
    IF GeNum(speedKmh, Num(90)) THEN Num(10)
    ELSE IF GeNum(speedKmh, Num(50))
         THEN Mul(Div(Sub(speedKmh, Num(50)), Num(40)), Num(10))
    ELSE Num(0)

\* the speed boost added to g, y and r
SpeedBoost_flat5(speedKmh) ==
    IF GeNum(speedKmh, Num(90)) THEN Num(10)
    ELSE IF GeNum(speedKmh, Num(50)) THEN Num(5)
    ELSE Num(0)

SpeedBoost_cap5(speedKmh) ==
    IF GeNum(speedKmh, Num(90)) THEN Num(5)
    ELSE IF GeNum(speedKmh, Num(50))
         THEN Add(Num(5), Mul(Div(Sub(speedKmh, Num(50)), Num(40)), Num(5)))
    ELSE Num(0)

SpeedBoost(speedKmh) ==
    IF GeNum(speedKmh, Num(90)) THEN Num(10)
    ELSE IF GeNum(speedKmh, Num(50))
         THEN Add(Num(5), Mul(Div(Sub(speedKmh, Num(50)), Num(40)), Num(5)))
    ELSE Num(0)

\* the default parameter value: speedKmh = 0 when the argument is undefined
SpeedOrDefault(speedKmh) ==
    IF speedKmh.kind = "undefined" THEN Num(0) ELSE speedKmh

accScoreLinear_nonFinitePerfect(m, speedKmh) ==
    IF ~IsFiniteNumber(m) THEN Num(100)
    ELSE LET b == SpeedBoost(SpeedOrDefault(speedKmh))
             g == Add(Num(12), b)
             y == Add(Num(35), b)
             r == Add(Num(80), b)
         IN  IF Le(m, g) THEN Num(100)
             ELSE IF Le(m, y)
                  THEN Sub(Num(100), Mul(Sub(m, g), Div(Num(40), Sub(y, g))))
             ELSE IF Le(m, r)
                  THEN Sub(Num(60), Mul(Sub(m, y), Div(Num(40), Sub(r, y))))
             ELSE Num(0)

accScoreLinear_slope60(m, speedKmh) ==
    IF ~IsFiniteNumber(m) THEN Num(0)
    ELSE LET b == SpeedBoost(SpeedOrDefault(speedKmh))
             g == Add(Num(12), b)
             y == Add(Num(35), b)
             r == Add(Num(80), b)
         IN  IF Le(m, g) THEN Num(100)
             ELSE IF Le(m, y)
                  THEN Sub(Num(100), Mul(Sub(m, g), Div(Num(40), Sub(y, g))))
             ELSE IF Le(m, r)
                  THEN Sub(Num(60), Mul(Sub(m, y), Div(Num(60), Sub(r, y))))
             ELSE Num(0)

accScoreLinear_yellowFrom70(m, speedKmh) ==
    IF ~IsFiniteNumber(m) THEN Num(0)
    ELSE LET b == SpeedBoost(SpeedOrDefault(speedKmh))
             g == Add(Num(12), b)
             y == Add(Num(35), b)
             r == Add(Num(80), b)
         IN  IF Le(m, g) THEN Num(100)
             ELSE IF Le(m, y)
                  THEN Sub(Num(100), Mul(Sub(m, g), Div(Num(40), Sub(y, g))))
             ELSE IF Le(m, r)
                  THEN Sub(Num(70), Mul(Sub(m, y), Div(Num(40), Sub(r, y))))
             ELSE Num(0)

accScoreLinear(m, speedKmh) ==
    IF ~IsFiniteNumber(m) THEN Num(0)
    ELSE LET b == SpeedBoost(SpeedOrDefault(speedKmh))
             g == Add(Num(12), b)
             y == Add(Num(35), b)
             r == Add(Num(80), b)
         IN  IF Le(m, g) THEN Num(100)
             ELSE IF Le(m, y)
                  THEN Sub(Num(100), Mul(Sub(m, g), Div(Num(40), Sub(y, g))))
             ELSE IF Le(m, r)
                  THEN Sub(Num(60), Mul(Sub(m, y), Div(Num(40), Sub(r, y))))
             ELSE Num(0)

----------------------------------------------------------------------------
(* Helpers on arrays of numbers *)

\* xs.reduce((a, b) => a + b, 0)
RECURSIVE SumSeq(_)
SumSeq(xs) == IF xs = <<>> THEN Num(0) ELSE Add(Head(xs), SumSeq(Tail(xs)))

\* the array xs with x inserted before the first element greater than x
RECURSIVE Insert(_, _)
Insert(x, xs) ==
    IF xs = <<>> THEN <<x>>
    ELSE IF Lt(x, Head(xs)) THEN <<x>> \o xs
    ELSE <<Head(xs)>> \o Insert(x, Tail(xs))

\* xs.sort((a, b) => a - b) on finite numbers
RECURSIVE SortAsc(_)
SortAsc(xs) == IF xs = <<>> THEN <<>> ELSE Insert(Head(xs), SortAsc(Tail(xs)))

----------------------------------------------------------------------------
(* scoreClient *)

BASE_W == 45000
MIN_SAMPLES == 5
MAX_W == 180000

InWindow_noFutureCheck(s, t, w) == LET dt == t - s.ts IN dt <= w

\* dt >= 0 && dt <= w, with dt = now - s.ts
InWindow(s, t, w) == LET dt == t - s.ts IN dt >= 0 /\ dt <= w

\* number of samples of the base window
CountBase(samples, t) ==
    Cardinality({i \in DOMAIN samples : InWindow(samples[i], t, BASE_W)})

Scale_floor(countBase) ==
    IF countBase > 0 THEN Floor(Fin(MIN_SAMPLES, countBase)) ELSE 4

\* scale, from countBase
Scale(countBase) ==
    IF countBase > 0 THEN Ceil(Fin(MIN_SAMPLES, countBase)) ELSE 4

\* W, from countBase
WindowOf(countBase) ==
    LET scale == Scale(countBase)
        m == IF scale > 1 THEN scale ELSE 1
    IN  IF MAX_W <= BASE_W * m THEN MAX_W ELSE BASE_W * m

\* the window W selected for the samples at time t
WindowW(samples, t) == WindowOf(CountBase(samples, t))

\* win: the samples of the selected window, in their order
WorkingSet(samples, t) ==
    LET W == WindowW(samples, t)
    IN  SelectSeq(samples, LAMBDA s : InWindow(s, t, W))

\* accs: the accuracy scores of the working set, sorted ascending
AccScores(win) ==
    SortAsc([i \in DOMAIN win |->
                accScoreLinear(win[i].accuracyM,
                               IF win[i].speedKmh.kind \in {"undefined", "null"}
                               THEN Num(0) ELSE win[i].speedKmh)])

TrimmedMean_trimHalf(accs) ==
    LET n == Len(accs)
        trim == Floor(Mul(Num(n), Fin(1, 2)))
        trimmed == SubSeq(accs, trim + 1, n - trim)
    IN  Div(SumSeq(trimmed), Num(Len(trimmed)))

TrimmedMean_untrimmed(accs) ==
    Div(SumSeq(accs), Num(Len(accs)))

\* A: the trimmed mean of the sorted scores
TrimmedMean(accs) ==
    LET n == Len(accs)
        trim == Floor(Mul(Num(n), Fin(1, 10)))
        trimmed == IF n > 2 * trim THEN SubSeq(accs, trim + 1, n - trim) ELSE accs
    IN  Div(SumSeq(trimmed), Num(Len(trimmed)))

LastTs_first(win) == win[1].ts

RECURSIVE LastTs_oldest(_)
LastTs_oldest(win) ==
    IF Len(win) = 1 THEN win[1].ts
    ELSE LET mx == LastTs_oldest(SubSeq(win, 1, Len(win) - 1))
             s == win[Len(win)]
         IN  IF s.ts < mx THEN s.ts ELSE mx

\* lastTs: the newest timestamp of the working set
RECURSIVE LastTs(_)
LastTs(win) ==
    IF Len(win) = 1 THEN win[1].ts
    ELSE LET mx == LastTs(SubSeq(win, 1, Len(win) - 1))
             s == win[Len(win)]
         IN  IF s.ts > mx THEN s.ts ELSE mx

\* F, from the working set
Freshness(win, t) ==
    LET age == MaxR(Num(0), Fin(t - LastTs(win), 1000))
    IN  IF Le(age, Num(10)) THEN Num(100)
        ELSE IF Le(Num(60), age) THEN Num(0)
        ELSE Mul(Num(100), Sub(Num(1), Div(Sub(age, Num(10)), Num(50))))

Availability_baseWindow(n, W, hz) ==
    LET Wsec == Fin(BASE_W, 1000)
        actualHz == Div(Num(n), Wsec)
        r == IF Lt(Num(0), hz) THEN Div(actualHz, hz) ELSE Num(1)
        x == Div(Sub(r, Fin(3, 10)), Sub(Fin(8, 10), Fin(3, 10)))
    IN  Mul(MaxR(Num(0), MinR(Num(1), x)), Num(100))

\* V, from the size of the working set, the window and expectedHz
Availability(n, W, hz) ==
    LET Wsec == Fin(W, 1000)
        actualHz == Div(Num(n), Wsec)
        r == IF Lt(Num(0), hz) THEN Div(actualHz, hz) ELSE Num(1)
        x == Div(Sub(r, Fin(3, 10)), Sub(Fin(8, 10), Fin(3, 10)))
    IN  Mul(MaxR(Num(0), MinR(Num(1), x)), Num(100))

Composite_noDiscount(A, F, V) ==
    Add(Add(Mul(Fin(85, 100), A), Mul(Fin(1, 10), F)), Mul(Fin(5, 100), V))

Composite_weight58(A, F, V) ==
    LET Veff == Mul(V, Div(F, Num(100)))
    IN  Add(Add(Mul(Fin(58, 100), A), Mul(Fin(1, 10), F)), Mul(Fin(5, 100), Veff))

\* S, from A, F and V
Composite(A, F, V) ==
    LET Veff == Mul(V, Div(F, Num(100)))
    IN  IF A.kind # "fin" THEN NaN
        ELSE Add(Add(Mul(Fin(85, 100), A), Mul(Fin(1, 10), F)), Mul(Fin(5, 100), Veff))

scoreClient_zeroWhenEmpty(c, t, hz) ==
    LET W == WindowW(c.samples, t)
        win == WorkingSet(c.samples, t)
    IN  IF Len(win) = 0 THEN Num(0)
        ELSE Composite(TrimmedMean(AccScores(win)),
                       Freshness(win, t),
                       Availability(Len(win), W, hz))

scoreClient(c, t, hz) ==
    LET W == WindowW(c.samples, t)
        win == WorkingSet(c.samples, t)
    IN  IF Len(win) = 0 THEN Null
        ELSE Composite(TrimmedMean(AccScores(win)),
                       Freshness(win, t),
                       Availability(Len(win), W, hz))

----------------------------------------------------------------------------
(* calcOverallScore *)

ClientsAfterCall_pruned(cs, t) ==
    [i \in DOMAIN cs |-> [cs[i] EXCEPT !.samples = WorkingSet(@, t)]]

\* the clients array and the samples arrays as a call leaves them: map and
\* filter return new arrays, and the two sorts act on those
ClientsAfterCall(cs, t) == cs

\* raw: the score of every client, in the clients' order
RawScores(cs, t, hz) == [i \in DOMAIN cs |-> scoreClient(cs[i], t, hz)]

ScoredOf_unsorted(rw) == SelectSeq(rw, IsFiniteNumber)

\* scores: the finite numbers of raw, sorted ascending
ScoredOf(rw) == SortAsc(SelectSeq(rw, IsFiniteNumber))

\* p50 of the sorted scores
Median(scores) ==
    LET n == Len(scores)
    IN  IF n # 0
        THEN IF n % 2 = 1
             THEN scores[(n \div 2) + 1]
             ELSE Div(Add(scores[n \div 2], scores[(n \div 2) + 1]), Num(2))
        ELSE Num(0)

\* R, the share of scores below 40
RedRatio(scores) ==
    LET total == IF Len(scores) > 1 THEN Len(scores) ELSE 1
    IN  Fin(Cardinality({i \in DOMAIN scores : Lt(scores[i], Num(40))}), total)

YellowRatio_above40(scores) ==
    LET total == IF Len(scores) > 1 THEN Len(scores) ELSE 1
    IN  Fin(Cardinality({i \in DOMAIN scores :
                            Lt(Num(40), scores[i]) /\ Lt(scores[i], Num(70))}), total)

\* Y, the share of scores in [40, 70)
YellowRatio(scores) ==
    LET total == IF Len(scores) > 1 THEN Len(scores) ELSE 1
    IN  Fin(Cardinality({i \in DOMAIN scores :
                            Le(Num(40), scores[i]) /\ Lt(scores[i], Num(70))}), total)

LabelOf_goodIgnoresRed(p50, R, Y) ==
    IF Le(Num(80), p50) /\ Lt(Y, Fin(2, 10)) THEN "Good"
    ELSE IF Lt(p50, Num(50)) \/ Le(Fin(15, 100), R) THEN "Poor"
    ELSE "Moderate"

LabelOf_noYellow(p50, R, Y) ==
    IF Le(Num(80), p50) /\ Lt(R, Fin(5, 100)) THEN "Good"
    ELSE IF Lt(p50, Num(50)) \/ Le(Fin(15, 100), R) THEN "Poor"
    ELSE "Moderate"

LabelOf_poorAnd(p50, R, Y) ==
    IF Le(Num(80), p50) /\ Lt(R, Fin(5, 100)) /\ Lt(Y, Fin(2, 10)) THEN "Good"
    ELSE IF Lt(p50, Num(50)) /\ Le(Fin(15, 100), R) THEN "Poor"
    ELSE "Moderate"

\* the label of the statistics
LabelOf(p50, R, Y) ==
    IF Le(Num(80), p50) /\ Lt(R, Fin(5, 100)) /\ Lt(Y, Fin(2, 10)) THEN "Good"
    ELSE IF Lt(p50, Num(50)) \/ Le(Fin(15, 100), R) THEN "Poor"
    ELSE "Moderate"

\* the verdict computed from raw
Verdict(rw) ==
    LET scores == ScoredOf(rw)
        p50 == Median(scores)
        R == RedRatio(scores)
        Y == YellowRatio(scores)
    IN  [p50 |-> p50, redRatio |-> R, yellowRatio |-> Y, label |-> LabelOf(p50, R, Y)]

calcOverallScore(cs, t, hz) == Verdict(RawScores(cs, t, hz))

----------------------------------------------------------------------------
(* locationReducer *)

MAX_UPDATES_PER_DEVICE == 500
MAX_LOGS_PER_DEVICE == 500

\* the filter callback of enforcePerDeviceLimit on one item, countByDevice
\* being the number of items kept so far for each device: the item if it is
\* kept, and the counts after it
FilterItem(item, countByDevice, maxPerDevice) ==
    LET count == IF item.device \in DOMAIN countByDevice
                 THEN countByDevice[item.device] ELSE 0
    IN  IF count >= maxPerDevice
        THEN [kept |-> <<>>, countByDevice |-> countByDevice]
        ELSE [kept |-> <<item>>,
              countByDevice |->
                  [d \in DOMAIN countByDevice \cup {item.device} |->
                      IF d = item.device THEN count + 1 ELSE countByDevice[d]]]

\* the filter over items[lo .. hi] in index order, as the first half followed
\* by the second half
RECURSIVE FilterRange(_, _, _, _, _)
FilterRange(items, lo, hi, countByDevice, maxPerDevice) ==
    IF lo > hi THEN [kept |-> <<>>, countByDevice |-> countByDevice]
    ELSE IF lo = hi THEN FilterItem(items[lo], countByDevice, maxPerDevice)
    ELSE LET mid == (lo + hi) \div 2
             first == FilterRange(items, lo, mid, countByDevice, maxPerDevice)
             second == FilterRange(items, mid + 1, hi, first.countByDevice, maxPerDevice)
         IN  [kept |-> first.kept \o second.kept, countByDevice |-> second.countByDevice]

enforcePerDeviceLimit_global(items, maxPerDevice) ==
    SubSeq(items, 1, IF Len(items) < maxPerDevice THEN Len(items) ELSE maxPerDevice)

enforcePerDeviceLimit(items, maxPerDevice) ==
    FilterRange(items, 1, Len(items), <<>>, maxPerDevice).kept

\* Array.from(new Set([device, ...ids])): device first, then the others
WithDeviceFirst(device, ids) ==
    <<device>> \o SelectSeq(ids, LAMBDA d : d # device)

----------------------------------------------------------------------------
(* use-line-names *)

MAX_RETRIES == 3
RETRY_DELAYS == <<2000, 4000, 8000>>

ShouldRetry_inclusive(retryCount) == retryCount <= MAX_RETRIES

\* _retryCount < MAX_RETRIES
ShouldRetry(retryCount) == retryCount < MAX_RETRIES

\* RETRY_DELAYS[_retryCount], an index from 0; undefined is no delay
RetryDelay(retryCount) ==
    IF retryCount + 1 \in DOMAIN RETRY_DELAYS THEN RETRY_DELAYS[retryCount + 1] ELSE 0

\* Number(id) of an id string, and String(n) of a line id
NumberOf(id) == CASE id = "1" -> 1 [] id = "02" -> 2
StringOf(n) == IF n = 1 THEN "1" ELSE "2"

\* ids.filter((id) => !resolvedIds.has(id) && !pendingIds.has(id))
NewIds_ignorePending(ids) == {id \in ids : id \notin resolvedIds}

NewIds(ids) == {id \in ids : id \notin resolvedIds /\ id \notin pendingIds}

\* fetchLineNames(ids, _retryCount) up to the fetch call: what it does to
\* pendingIds and the fetch calls
FetchLineNames(ids, retryCount) ==
    IF NewIds(ids) = {} \/ gqlUrl = ""
    THEN UNCHANGED <<pendingIds, requests, nFetch>>
    ELSE /\ pendingIds' = pendingIds \cup NewIds(ids)
         /\ nFetch' = nFetch + 1
         /\ requests' = requests \cup
                {[n |-> nFetch + 1, ids |-> NewIds(ids), retryCount |-> retryCount]}

Named_any(lines) == DOMAIN lines

\* the lines of a response whose nameShort, or color, is not empty
Named(lines) == {n \in DOMAIN lines : lines[n].nameShort # ""}
Coloured(lines) == {n \in DOMAIN lines : lines[n].color # ""}

\* line.color.startsWith("#") ? line.color : `#${line.color}`
WithHash(color) == IF color = "#c" THEN color ELSE "#c"

\* nextNames and nextColors of the then handler
NextNames(lines) ==
    [id \in DOMAIN cache \cup {StringOf(n) : n \in Named(lines)} |->
        IF \E n \in Named(lines) : StringOf(n) = id
        THEN lines[CHOOSE n \in Named(lines) : StringOf(n) = id].nameShort
        ELSE cache[id]]
NextColors(lines) ==
    [id \in DOMAIN colorCache \cup {StringOf(n) : n \in Coloured(lines)} |->
        IF \E n \in Coloured(lines) : StringOf(n) = id
        THEN WithHash(lines[CHOOSE n \in Coloured(lines) : StringOf(n) = id].color)
        ELSE colorCache[id]]

----------------------------------------------------------------------------
(* Inputs *)

MaxErrK == 5
MaxSamples == 5
MaxNowTick == 13
MaxClients == 6

\* one tick of the time grid: a third of the base window (15 s)
TimeStep == BASE_W \div 3

\* speeds handed to accScoreLinear: absent, below, at and inside the
\* interpolated band, at and above its end
AccSpeeds == {Undefined, Num(0), Num(49), Num(50), Num(70), Num(90), Num(120)}

\* accuracies handed to accScoreLinear: the grid 0, 20, ..., 20 * MaxErrK metres,
\* the thresholds g, y, r of every speed, the middle of the green-yellow
\* band, and the non-numbers
AccErrors ==
    {Num(20 * k) : k \in 0 .. MaxErrK}
    \cup {Add(Num(th), SpeedBoost(SpeedOrDefault(v))) : th \in {12, 35, 80}, v \in AccSpeeds}
    \cup {Fin(47, 2)}
    \cup {Undefined, Null, NaN, PosInf, NegInf}

NoCall == [m |-> Undefined, speedKmh |-> Undefined, out |-> Undefined]

\* samples of the one client of SpecDevice (at most MaxSamples of them): an
\* accurate one produced at time 0, and an accurate one and one without
\* accuracy produced 90 s later
DevSamples ==
    {[ts |-> 0, accuracyM |-> Num(5), speedKmh |-> Undefined],
     [ts |-> 6 * TimeStep, accuracyM |-> Num(5), speedKmh |-> Undefined],
     [ts |-> 6 * TimeStep, accuracyM |-> Undefined, speedKmh |-> Undefined]}

\* expectedHz of SpecDevice: the default, a rate near the sparse devices', none,
\* and a negative one
DevHz == {Num(1), Fin(1, 90), Num(0), Num(-1)}

\* sample lists of the clients of SpecFleet (at most MaxClients of them): one
\* sample at time 0 that is accurate, mediocre or without accuracy, or one
\* accurate sample at 240 s
FleetSamples ==
    {<<[ts |-> 0, accuracyM |-> a, speedKmh |-> Undefined]>> :
        a \in {Num(5), Num(35), Undefined}}
    \cup {<<[ts |-> 16 * TimeStep, accuracyM |-> Num(5), speedKmh |-> Undefined]>>}

\* `now` of SpecFleet: 0 s, 60 s and 240 s
FleetNows == {0, 4 * TimeStep, 16 * TimeStep}

\* calls of SpecOrder: with the later samples fresh, 30 s old and 105 s old
OrderNows == {6 * TimeStep, 8 * TimeStep, 13 * TimeStep}
OrderHz == {Num(1), Fin(1, 90)}

\* samples per client of SpecTrim: enough for floor(n * 0.1) to reach 1
MaxTrimSamples == 10

\* samples of the device of SpecTrim: all at time 0, accurate or mediocre
TrimSamples ==
    {[ts |-> 0, accuracyM |-> a, speedKmh |-> Undefined] : a \in {Num(5), Num(35)}}

\* clients of SpecBand
MaxBandClients == 4

\* the time of the call of SpecBand
BandNow == 50 * 1000

\* sample lists of the clients of SpecBand, one sample each: scored 70 (A 80,
\* F 20), 40 (A 40, F 60), 61, 95 and 10, and one from after the call (no
\* data)
BandSamples ==
    {<<[ts |-> 0, accuracyM |-> Fin(47, 2), speedKmh |-> Undefined]>>,
     <<[ts |-> 20 * 1000, accuracyM |-> Fin(115, 2), speedKmh |-> Undefined]>>,
     <<[ts |-> BandNow, accuracyM |-> Num(35), speedKmh |-> Undefined]>>,
     <<[ts |-> BandNow, accuracyM |-> Num(5), speedKmh |-> Undefined]>>,
     <<[ts |-> BandNow, accuracyM |-> Undefined, speedKmh |-> Undefined]>>,
     <<[ts |-> BandNow + 1000, accuracyM |-> Num(5), speedKmh |-> Undefined]>>}

\* actions of SpecStore after Init
MaxSteps == 5

Devices == {"device-a", "device-b"}

\* a list after nb entries of device-b and then na entries of device-a were
\* added, none of them dropped
Prefilled(na, nb) ==
    [i \in 1 .. na + nb |->
        [device |-> IF i <= na THEN "device-a" ELSE "device-b", id |-> na + nb + 1 - i]]

\* the numbers of entries per device the store of SpecStore starts with: none,
\* or one below the limit
PrefillUpdates == {0, MAX_UPDATES_PER_DEVICE - 1}
PrefillLogs == {0, MAX_LOGS_PER_DEVICE - 1}

\* calls fetchLineNames made by the application
MaxLineCalls == 2

\* id strings of the calls: two line ids, one of them with a leading zero
LineIds == {"1", "02"}

\* the GQL URL when it is configured
GqlUrl == "https://gql"

\* the lines a response can carry for the line ids asked for: for each, no
\* line, or a line with or without a name and with no colour, a colour
\* without, or a colour with a leading #
ResponseLines(ids) ==
    LET asked == {NumberOf(id) : id \in ids}
        Line == [nameShort : {"", "N"}, color : {"", "c", "#c"}]
    IN  UNION {[some -> Line] : some \in SUBSET asked}

NoneSettled == [n |-> 0, ids |-> {}, ok |-> FALSE, lines |-> <<>>]

NoResult == [p50 |-> Null, redRatio |-> Null, yellowRatio |-> Null, label |-> "none"]

----------------------------------------------------------------------------
(* State machine *)

InitAcc ==
    /\ accIn = [m |-> Undefined, speedKmh |-> Undefined]
    /\ accOut = Undefined
    /\ accPrev = NoCall

InitFleet ==
    /\ now = 0
    /\ expectedHz = Num(1)
    /\ raw = <<>>
    /\ result = NoResult

\* one call accScoreLinear(m, speedKmh)
ScoreSample ==
    \E m \in AccErrors, v \in AccSpeeds :
        /\ accPrev' = [m |-> accIn.m, speedKmh |-> accIn.speedKmh, out |-> accOut]
        /\ accIn' = [m |-> m, speedKmh |-> v]
        /\ accOut' = accScoreLinear(m, v)
        /\ UNCHANGED <<clients, now, expectedHz, raw, result>>
        /\ UNCHANGED <<storeVars, lineVars, connVars>>

\* the caller collects one more sample of client i; the memoised call is dropped
PushSample(i, s) ==
    /\ i \in DOMAIN clients
    /\ clients' = [clients EXCEPT ![i].samples = Append(@, s)]
    /\ raw' = <<>>
    /\ result' = NoResult
    /\ now' = 0
    /\ expectedHz' = Num(1)
    /\ UNCHANGED <<accIn, accOut, accPrev>>
    /\ UNCHANGED <<storeVars, lineVars, connVars>>

\* PushSample for a client of fewer than MaxSamples samples
AddSample(i, s) ==
    /\ i \in DOMAIN clients
    /\ Len(clients[i].samples) < MaxSamples
    /\ PushSample(i, s)

\* the caller collects one more client; the memoised call is dropped
AddClient(samples) ==
    /\ Len(clients) < MaxClients
    /\ clients' = Append(clients, [id |-> Len(clients) + 1, samples |-> samples])
    /\ raw' = <<>>
    /\ result' = NoResult
    /\ now' = 0
    /\ expectedHz' = Num(1)
    /\ UNCHANGED <<accIn, accOut, accPrev>>
    /\ UNCHANGED <<storeVars, lineVars, connVars>>

\* one call calcOverallScore(clients, t, hz), made when the verdict is missing
CalcOverallScore(t, hz) ==
    /\ result = NoResult
    /\ now' = t
    /\ expectedHz' = hz
    /\ raw' = RawScores(clients, t, hz)
    /\ result' = Verdict(raw')
    /\ clients' = ClientsAfterCall(clients, t)
    /\ UNCHANGED <<accIn, accOut, accPrev>>
    /\ UNCHANGED <<storeVars, lineVars, connVars>>

\* initialState of the store
InitStore ==
    /\ updates = <<>>
    /\ logs = <<>>
    /\ messageCount = 0
    /\ deviceIds = <<>>
    /\ addedUpdates = <<>>
    /\ addedLogs = <<>>
    /\ steps = 0

\* locationReducer(state, {type: "ADD_UPDATE", payload: update})
AddUpdate(update) ==
    /\ steps < MaxSteps
    /\ updates' = enforcePerDeviceLimit(<<update>> \o updates, MAX_UPDATES_PER_DEVICE)
    /\ deviceIds' = WithDeviceFirst(update.device, deviceIds)
    /\ messageCount' = messageCount + 1
    /\ addedUpdates' = <<update>> \o addedUpdates
    /\ steps' = steps + 1
    /\ UNCHANGED <<logs, addedLogs>>
    /\ UNCHANGED <<scoreVars, lineVars, connVars>>

\* locationReducer(state, {type: "ADD_LOG", payload: log})
AddLog(log) ==
    /\ steps < MaxSteps
    /\ logs' = enforcePerDeviceLimit(<<log>> \o logs, MAX_LOGS_PER_DEVICE)
    /\ addedLogs' = <<log>> \o addedLogs
    /\ steps' = steps + 1
    /\ UNCHANGED <<updates, messageCount, deviceIds, addedUpdates>>
    /\ UNCHANGED <<scoreVars, lineVars, connVars>>

\* the module state of use-line-names after import, with the GQL URL u
InitLines(u) ==
    /\ gqlUrl = u
    /\ cache = <<>>
    /\ colorCache = <<>>
    /\ resolvedIds = {}
    /\ pendingIds = {}
    /\ requests = {}
    /\ timers = {}
    /\ nFetch = 0
    /\ lineCalls = 0
    /\ notified = 0
    /\ settled = NoneSettled

\* the application calls fetchLineNames(ids)
CallFetchLineNames(ids) ==
    /\ lineCalls < MaxLineCalls
    /\ lineCalls' = lineCalls + 1
    /\ FetchLineNames(ids, 0)
    /\ UNCHANGED <<gqlUrl, cache, colorCache, resolvedIds, timers, notified, settled>>
    /\ UNCHANGED <<scoreVars, storeVars, connVars>>

\* the fetch of request rq resolves with a lines array: the then handler
FetchSucceeds(rq, lines) ==
    /\ rq \in requests
    /\ requests' = requests \ {rq}
    /\ resolvedIds' = resolvedIds \cup rq.ids
    /\ pendingIds' = pendingIds \ rq.ids
    /\ IF Named(lines) # {} \/ Coloured(lines) # {}
       THEN /\ cache' = NextNames(lines)
            /\ colorCache' = NextColors(lines)
            /\ notified' = notified + 1
       ELSE UNCHANGED <<cache, colorCache, notified>>
    /\ settled' = [n |-> rq.n, ids |-> rq.ids, ok |-> TRUE, lines |-> lines]
    /\ UNCHANGED <<gqlUrl, timers, nFetch, lineCalls>>
    /\ UNCHANGED <<scoreVars, storeVars, connVars>>

\* the fetch of request rq rejects, or resolves without a lines array: the
\* catch handler
FetchFails(rq) ==
    /\ rq \in requests
    /\ requests' = requests \ {rq}
    /\ pendingIds' = pendingIds \ rq.ids
    /\ timers' = IF ShouldRetry(rq.retryCount)
                 THEN timers \cup {[n |-> rq.n, ids |-> rq.ids,
                                    retryCount |-> rq.retryCount + 1,
                                    delay |-> RetryDelay(rq.retryCount)]}
                 ELSE timers
    /\ settled' = [n |-> rq.n, ids |-> rq.ids, ok |-> FALSE, lines |-> <<>>]
    /\ UNCHANGED <<gqlUrl, cache, colorCache, resolvedIds, nFetch, lineCalls, notified>>
    /\ UNCHANGED <<scoreVars, storeVars, connVars>>

\* the retry timer tm fires: fetchLineNames(newIds, _retryCount + 1)
RetryFires(tm) ==
    /\ tm \in timers
    /\ timers' = timers \ {tm}
    /\ FetchLineNames(tm.ids, tm.retryCount)
    /\ UNCHANGED <<gqlUrl, cache, colorCache, resolvedIds, lineCalls, notified, settled>>
    /\ UNCHANGED <<scoreVars, storeVars, connVars>>

----------------------------------------------------------------------------
(* useWebSocket (src/hooks/useWebSocket.ts) *)

\* the default of the option reconnectInterval (ms)
reconnectInterval == 5000

\* null in wsRef and in reconnectTimeoutRef
NoSocket == 0
NoTimeout == 0

\* the values of the option url: undefined, a URL the WebSocket constructor
\* accepts, and one it throws a SyntaxError for
NoUrl == ""
GoodUrl == "wss://host/ws"
BadUrl == "host/ws"
Throws(u) == u = BadUrl

\* the application calls connect() and disconnect() at most MaxCalls times
MaxCalls == 4
Sockets == 1..(MaxCalls + 2)
Timeouts == 1..(MaxCalls + 2)

\* a WebSocket object that does not exist yet, and an unused timer id
FreshSocket ==
    CHOOSE s \in Sockets :
        /\ readyState[s] = "NONE"
        /\ \A r \in Sockets : readyState[r] = "NONE" => s <= r
IsFreshTimeout(pending, t) ==
    /\ t # reconnectTimeoutRef
    /\ \A tm \in pending : tm.id # t
FreshTimeout(pending) ==
    CHOOSE t \in Timeouts :
        /\ IsFreshTimeout(pending, t)
        /\ \A r \in Timeouts : IsFreshTimeout(pending, r) => t <= r

\* readyState is WebSocket.OPEN or WebSocket.CONNECTING
Live(s) == readyState[s] \in {"CONNECTING", "OPEN"}

\* WebSocket.close(): starts the closing handshake unless already closing
CloseSocket(rs, s) ==
    IF rs[s] \in {"CONNECTING", "OPEN"} THEN [rs EXCEPT ![s] = "CLOSING"] ELSE rs

\* clearTimeout(ref) on the pending timers
ClearTimeout(pending, ref) == {tm \in pending : tm.id # ref}

\* setTimeout(callback, delay)
SetTimeout(pending, delay) ==
    pending \cup {[id |-> FreshTimeout(pending), delay |-> delay]}

\* the reconnect condition of ws.onclose and of the catch block
ShouldReconnect_never(auto, manual) == FALSE
ShouldReconnect(auto, manual) == auto /\ ~manual

\* ws.onclose ignores the event of socket s
IsStale(ref, s) == ref # NoSocket /\ ref # s

Did(op, s) ==
    [op |-> op, ws |-> s, ignored |-> FALSE, onClose |-> FALSE,
     created |-> FALSE, scheduled |-> FALSE]

\* the hook after its first render, before any effect has run
InitHook(u, auto) ==
    /\ url = u
    /\ autoReconnect = auto
    /\ isConnected = FALSE
    /\ manuallyClosedRef = FALSE
    /\ wsRef = NoSocket
    /\ reconnectTimeoutRef = NoTimeout
    /\ readyState = [s \in Sockets |-> "NONE"]
    /\ latestSocket = NoSocket
    /\ pendingTimeouts = {}
    /\ calls = 0
    /\ last = Did("init", NoSocket)

\* connect(), called when reconnectTimeoutRef.current is ref and the timers
\* in pending are set
connect(op, ref, pending) ==
    IF url = NoUrl
    THEN /\ reconnectTimeoutRef' = ref
         /\ pendingTimeouts' = pending
         /\ last' = Did(op, NoSocket)
         /\ UNCHANGED <<manuallyClosedRef, wsRef, readyState, latestSocket>>
    ELSE /\ manuallyClosedRef' = FALSE
         /\ IF wsRef # NoSocket /\ Live(wsRef)
            THEN /\ reconnectTimeoutRef' = NoTimeout
                 /\ pendingTimeouts' = ClearTimeout(pending, ref)
                 /\ last' = Did(op, NoSocket)
                 /\ UNCHANGED <<wsRef, readyState, latestSocket>>
            ELSE IF Throws(url)
            THEN /\ IF ShouldReconnect(autoReconnect, FALSE)
                    THEN /\ reconnectTimeoutRef' = FreshTimeout(ClearTimeout(pending, ref))
                         /\ pendingTimeouts' = SetTimeout(ClearTimeout(pending, ref), reconnectInterval)
                         /\ last' = [Did(op, NoSocket) EXCEPT !.scheduled = TRUE]
                    ELSE /\ reconnectTimeoutRef' = NoTimeout
                         /\ pendingTimeouts' = ClearTimeout(pending, ref)
                         /\ last' = Did(op, NoSocket)
                 /\ UNCHANGED <<wsRef, readyState, latestSocket>>
            ELSE /\ reconnectTimeoutRef' = NoTimeout
                 /\ pendingTimeouts' = ClearTimeout(pending, ref)
                 /\ readyState' = [readyState EXCEPT ![FreshSocket] = "CONNECTING"]
                 /\ wsRef' = FreshSocket
                 /\ latestSocket' = FreshSocket
                 /\ last' = [Did(op, FreshSocket) EXCEPT !.created = TRUE]

\* the application (or the mount effect) calls connect()
HookConnect ==
    /\ calls < MaxCalls
    /\ calls' = calls + 1
    /\ connect("connect", reconnectTimeoutRef, pendingTimeouts)
    /\ UNCHANGED <<url, autoReconnect, isConnected>>
    /\ UNCHANGED providerVars
    /\ UNCHANGED <<scoreVars, storeVars, lineVars>>

\* the application (or the unmount effect) calls disconnect()
HookDisconnect ==
    /\ calls < MaxCalls
    /\ calls' = calls + 1
    /\ manuallyClosedRef' = TRUE
    /\ pendingTimeouts' = ClearTimeout(pendingTimeouts, reconnectTimeoutRef)
    /\ reconnectTimeoutRef' = NoTimeout
    /\ IF wsRef # NoSocket
       THEN /\ readyState' = CloseSocket(readyState, wsRef)
            /\ wsRef' = NoSocket
       ELSE UNCHANGED <<wsRef, readyState>>
    /\ isConnected' = FALSE
    /\ last' = Did("disconnect", wsRef)
    /\ UNCHANGED <<url, autoReconnect, latestSocket>>
    /\ UNCHANGED providerVars
    /\ UNCHANGED <<scoreVars, storeVars, lineVars>>

\* the connection of socket s is established: ws.onopen
HookOnOpen(s) ==
    /\ readyState[s] = "CONNECTING"
    /\ readyState' = [readyState EXCEPT ![s] = "OPEN"]
    /\ isConnected' = TRUE
    /\ last' = Did("open", s)
    /\ UNCHANGED <<url, autoReconnect, manuallyClosedRef, wsRef, reconnectTimeoutRef,
                   latestSocket, pendingTimeouts, calls>>
    /\ UNCHANGED providerVars
    /\ UNCHANGED <<scoreVars, storeVars, lineVars>>

\* the connection of socket s fails: ws.onerror, with readyState CLOSED and
\* the close event still to come
HookOnError(s) ==
    /\ Live(s)
    /\ readyState' = [readyState EXCEPT ![s] = "CLOSED"]
    /\ last' = Did("error", s)
    /\ UNCHANGED <<url, autoReconnect, isConnected, manuallyClosedRef, wsRef,
                   reconnectTimeoutRef, latestSocket, pendingTimeouts, calls>>
    /\ UNCHANGED providerVars
    /\ UNCHANGED <<scoreVars, storeVars, lineVars>>

\* the server starts the closing handshake of the open socket s
HookClosing(s) ==
    /\ readyState[s] = "OPEN"
    /\ readyState' = [readyState EXCEPT ![s] = "CLOSING"]
    /\ last' = Did("closing", s)
    /\ UNCHANGED <<url, autoReconnect, isConnected, manuallyClosedRef, wsRef,
                   reconnectTimeoutRef, latestSocket, pendingTimeouts, calls>>
    /\ UNCHANGED providerVars
    /\ UNCHANGED <<scoreVars, storeVars, lineVars>>

\* the connection of socket s is closed (after a handshake, or lost, or never
\* established): ws.onclose
HookOnClose(s) ==
    /\ readyState[s] # "NONE"
    /\ readyState' = [readyState EXCEPT ![s] = "NONE"]
    /\ IF IsStale(wsRef, s)
       THEN /\ last' = [Did("close", s) EXCEPT !.ignored = TRUE]
            /\ UNCHANGED <<isConnected, wsRef, reconnectTimeoutRef, pendingTimeouts>>
       ELSE /\ isConnected' = FALSE
            /\ wsRef' = NoSocket
            /\ IF ShouldReconnect(autoReconnect, manuallyClosedRef)
               THEN /\ reconnectTimeoutRef' = FreshTimeout(pendingTimeouts)
                    /\ pendingTimeouts' = SetTimeout(pendingTimeouts, reconnectInterval)
                    /\ last' = [Did("close", s) EXCEPT !.onClose = TRUE, !.scheduled = TRUE]
               ELSE /\ last' = [Did("close", s) EXCEPT !.onClose = TRUE]
                    /\ UNCHANGED <<reconnectTimeoutRef, pendingTimeouts>>
    /\ UNCHANGED <<url, autoReconnect, manuallyClosedRef, latestSocket, calls>>
    /\ UNCHANGED providerVars
    /\ UNCHANGED <<scoreVars, storeVars, lineVars>>

\* the reconnect timer tm fires: reconnectTimeoutRef.current = null; connect()
HookTimeout(tm) ==
    /\ tm \in pendingTimeouts
    /\ connect("timeout", NoTimeout, pendingTimeouts \ {tm})
    /\ UNCHANGED <<url, autoReconnect, isConnected, calls>>
    /\ UNCHANGED providerVars
    /\ UNCHANGED <<scoreVars, storeVars, lineVars>>

----------------------------------------------------------------------------
(* LocationProvider with automatic reconnection (src/unnamed/part_014) *)

WS_URL == "wss://analytics-internal.trainlcd.app/ws"
RECONNECT_INITIAL_DELAY == 1000
RECONNECT_MAX_DELAY == 30000
RECONNECT_MULTIPLIER == Fin(3, 2)

\* Math.round(delay / 1000)
RoundSeconds(delay) == (2 * delay.n + 1000 * delay.d) \div (2000 * delay.d)

\* the values of state.error
NoError == [text |-> "null", seconds |-> 0]
ReconnectingError(delay) == [text |-> "reconnecting", seconds |-> RoundSeconds(delay)]
ConnectionError == [text |-> "connection error", seconds |-> 0]
CreateError == [text |-> "creation failed", seconds |-> 0]

\* the next value of reconnectDelayRef.current
NextDelay(delay) == MinR(Mul(delay, RECONNECT_MULTIPLIER), Num(RECONNECT_MAX_DELAY))

\* the refs and the connection state of the provider after its first render
InitProvider ==
    /\ shouldReconnectRef = TRUE
    /\ reconnectDelayRef = Num(RECONNECT_INITIAL_DELAY)
    /\ connectionStatus = "disconnected"
    /\ error = NoError

\* scheduleReconnect(), called when reconnectTimeoutRef.current is ref, the
\* timers in pending are set and the state is [status, error]
scheduleReconnect(should, ref, pending, status, err, step) ==
    IF ~should
    THEN /\ reconnectTimeoutRef' = ref
         /\ pendingTimeouts' = pending
         /\ connectionStatus' = status
         /\ error' = err
         /\ last' = step
    ELSE /\ reconnectTimeoutRef' = FreshTimeout(ClearTimeout(pending, ref))
         /\ pendingTimeouts' = SetTimeout(ClearTimeout(pending, ref), reconnectDelayRef')
         /\ connectionStatus' = status
         /\ error' = ReconnectingError(reconnectDelayRef')
         /\ last' = [step EXCEPT !.scheduled = TRUE]

\* connectInternal(), called when shouldReconnectRef.current is should,
\* reconnectTimeoutRef.current is ref and the timers in pending are set
connectInternal(op, should, ref, pending) ==
    IF Throws(WS_URL)
    THEN /\ readyState' = IF wsRef # NoSocket THEN CloseSocket(readyState, wsRef) ELSE readyState
         /\ UNCHANGED <<wsRef, latestSocket>>
         /\ scheduleReconnect(should, ref, pending, "error", CreateError, Did(op, NoSocket))
    ELSE /\ readyState' = [(IF wsRef # NoSocket THEN CloseSocket(readyState, wsRef) ELSE readyState)
                              EXCEPT ![FreshSocket] = "CONNECTING"]
         /\ wsRef' = FreshSocket
         /\ latestSocket' = FreshSocket
         /\ connectionStatus' = "connecting"
         /\ error' = NoError
         /\ reconnectTimeoutRef' = ref
         /\ pendingTimeouts' = pending
         /\ last' = [Did(op, FreshSocket) EXCEPT !.created = TRUE]

\* the application calls connect()
ProviderConnect ==
    /\ calls < MaxCalls
    /\ calls' = calls + 1
    /\ shouldReconnectRef' = TRUE
    /\ reconnectDelayRef' = Num(RECONNECT_INITIAL_DELAY)
    /\ connectInternal("connect", TRUE, NoTimeout,
                       ClearTimeout(pendingTimeouts, reconnectTimeoutRef))
    /\ UNCHANGED hookVars
    /\ UNCHANGED <<scoreVars, storeVars, lineVars>>

\* the application calls disconnect()
ProviderDisconnect ==
    /\ calls < MaxCalls
    /\ calls' = calls + 1
    /\ shouldReconnectRef' = FALSE
    /\ pendingTimeouts' = ClearTimeout(pendingTimeouts, reconnectTimeoutRef)
    /\ reconnectTimeoutRef' = NoTimeout
    /\ IF wsRef # NoSocket
       THEN /\ readyState' = CloseSocket(readyState, wsRef)
            /\ wsRef' = NoSocket
       ELSE UNCHANGED <<wsRef, readyState>>
    /\ connectionStatus' = "disconnected"
    /\ error' = NoError
    /\ last' = Did("disconnect", wsRef)
    /\ UNCHANGED <<reconnectDelayRef, latestSocket>>
    /\ UNCHANGED hookVars
    /\ UNCHANGED <<scoreVars, storeVars, lineVars>>

\* the connection of socket s is established: ws.onopen
ProviderOnOpen(s) ==
    /\ readyState[s] = "CONNECTING"
    /\ readyState' = [readyState EXCEPT ![s] = "OPEN"]
    /\ reconnectDelayRef' = Num(RECONNECT_INITIAL_DELAY)
    /\ connectionStatus' = "connected"
    /\ last' = Did("open", s)
    /\ UNCHANGED <<shouldReconnectRef, error, wsRef, reconnectTimeoutRef, latestSocket,
                   pendingTimeouts, calls>>
    /\ UNCHANGED hookVars
    /\ UNCHANGED <<scoreVars, storeVars, lineVars>>

\* the connection of socket s fails: ws.onerror
ProviderOnError(s) ==
    /\ Live(s)
    /\ readyState' = [readyState EXCEPT ![s] = "CLOSED"]
    /\ connectionStatus' = "error"
    /\ error' = ConnectionError
    /\ last' = Did("error", s)
    /\ UNCHANGED <<shouldReconnectRef, reconnectDelayRef, wsRef, reconnectTimeoutRef,
                   latestSocket, pendingTimeouts, calls>>
    /\ UNCHANGED hookVars
    /\ UNCHANGED <<scoreVars, storeVars, lineVars>>

\* the server starts the closing handshake of the open socket s
ProviderClosing(s) ==
    /\ readyState[s] = "OPEN"
    /\ readyState' = [readyState EXCEPT ![s] = "CLOSING"]
    /\ last' = Did("closing", s)
    /\ UNCHANGED <<wsRef, reconnectTimeoutRef, latestSocket, pendingTimeouts, calls>>
    /\ UNCHANGED <<hookVars, providerVars>>
    /\ UNCHANGED <<scoreVars, storeVars, lineVars>>

\* the connection of socket s is closed: ws.onclose
ProviderOnClose(s) ==
    /\ readyState[s] # "NONE"
    /\ readyState' = [readyState EXCEPT ![s] = "NONE"]
    /\ wsRef' = NoSocket
    /\ UNCHANGED <<shouldReconnectRef, reconnectDelayRef, latestSocket, calls>>
    /\ scheduleReconnect(shouldReconnectRef, reconnectTimeoutRef, pendingTimeouts,
                         "disconnected", error, Did("close", s))
    /\ UNCHANGED hookVars
    /\ UNCHANGED <<scoreVars, storeVars, lineVars>>

\* the reconnect timer tm fires: the delay grows and connectInternal() runs
ProviderTimeout(tm) ==
    /\ tm \in pendingTimeouts
    /\ reconnectDelayRef' = NextDelay(reconnectDelayRef)
    /\ connectInternal("timeout", shouldReconnectRef, reconnectTimeoutRef,
                       pendingTimeouts \ {tm})
    /\ UNCHANGED <<shouldReconnectRef, calls>>
    /\ UNCHANGED hookVars
    /\ UNCHANGED <<scoreVars, storeVars, lineVars>>

\* the variables of the connection handling when neither the hook nor the
\* provider is in use
InitConn == InitHook(NoUrl, FALSE) /\ InitProvider

\* SpecHook: useWebSocket with every url and autoReconnect option, the calls of
\* the application, the socket events and the reconnect timers
InitHookSpec ==
    /\ InitAcc /\ InitFleet /\ InitStore /\ InitLines("") /\ clients = <<>>
    /\ \E u \in {NoUrl, GoodUrl, BadUrl}, auto \in BOOLEAN : InitHook(u, auto)
    /\ InitProvider
HookOpens == \E s \in Sockets : HookOnOpen(s)
HookErrors == \E s \in Sockets : HookOnError(s)
HookServerCloses == \E s \in Sockets : HookClosing(s)
HookCloses == \E s \in Sockets : HookOnClose(s)
HookTimeoutFires == \E tm \in pendingTimeouts : HookTimeout(tm)
NextHook ==
    \/ HookConnect
    \/ HookDisconnect
    \/ HookOpens
    \/ HookErrors
    \/ HookServerCloses
    \/ HookCloses
    \/ HookTimeoutFires
SpecHook == InitHookSpec /\ [][NextHook]_vars

\* FairHook: the same, and a timer that is set and not cleared fires
FairHook == SpecHook /\ WF_vars(HookTimeoutFires)

\* SpecProvider: LocationProvider, the calls of the application, the socket
\* events and the reconnect timers
InitProviderSpec ==
    /\ InitAcc /\ InitFleet /\ InitStore /\ InitLines("") /\ clients = <<>>
    /\ InitHook(WS_URL, TRUE)
    /\ InitProvider
ProviderOpens == \E s \in Sockets : ProviderOnOpen(s)
ProviderErrors == \E s \in Sockets : ProviderOnError(s)
ProviderServerCloses == \E s \in Sockets : ProviderClosing(s)
ProviderCloses == \E s \in Sockets : ProviderOnClose(s)
ProviderTimeoutFires == \E tm \in pendingTimeouts : ProviderTimeout(tm)
NextProvider ==
    \/ ProviderConnect
    \/ ProviderDisconnect
    \/ ProviderOpens
    \/ ProviderErrors
    \/ ProviderServerCloses
    \/ ProviderCloses
    \/ ProviderTimeoutFires
SpecProvider == InitProviderSpec /\ [][NextProvider]_vars

----------------------------------------------------------------------------
(* Specifications *)

\* accScoreLinear on its own
InitSample == InitAcc /\ InitFleet /\ InitStore /\ InitLines("") /\ InitConn /\ clients = <<>>
NextSample == ScoreSample
SpecSample == InitSample /\ [][NextSample]_vars

\* one client, scored as its samples arrive
DevAddSample == \E s \in DevSamples : AddSample(1, s)
DevCalc == \E k \in 0 .. MaxNowTick, hz \in DevHz : CalcOverallScore(k * TimeStep, hz)
InitDevice == InitAcc /\ InitFleet /\ InitStore /\ InitLines("") /\ InitConn /\ clients = <<[id |-> 1, samples |-> <<>>]>>
NextDevice == DevAddSample \/ DevCalc
SpecDevice == InitDevice /\ [][NextDevice]_vars

\* SpecOrder: the client of SpecDevice, scored at three times
OrderCalc == \E t \in OrderNows, hz \in OrderHz : CalcOverallScore(t, hz)
NextOrder == DevAddSample \/ OrderCalc
SpecOrder == InitDevice /\ [][NextOrder]_vars

\* SpecTrim: one client with up to MaxTrimSamples fresh samples, scored at
\* time 0 with the default expectedHz
TrimAddSample ==
    /\ Len(clients[1].samples) < MaxTrimSamples
    /\ \E s \in TrimSamples : PushSample(1, s)
TrimCalc == CalcOverallScore(0, Num(1))
NextTrim == TrimAddSample \/ TrimCalc
SpecTrim == InitDevice /\ [][NextTrim]_vars

\* a fleet of clients
FleetAddClient == \E ss \in FleetSamples : AddClient(ss)
FleetCalc == \E t \in FleetNows : CalcOverallScore(t, Num(1))
InitFleetSpec == InitAcc /\ InitFleet /\ InitStore /\ InitLines("") /\ InitConn /\ clients = <<>>
NextFleet == FleetAddClient \/ FleetCalc
SpecFleet == InitFleetSpec /\ [][NextFleet]_vars

\* SpecBand: up to MaxBandClients clients with scores on and around the
\* bounds of the yellow band, scored at BandNow
BandAddClient ==
    /\ Len(clients) < MaxBandClients
    /\ \E ss \in BandSamples : AddClient(ss)
BandCalc == CalcOverallScore(BandNow, Num(1))
NextBand == BandAddClient \/ BandCalc
SpecBand == InitFleetSpec /\ [][NextBand]_vars

\* SpecStore: the store after device-b and then device-a sent none or one
\* below the limit of updates and of logs, and the actions ADD_UPDATE and
\* ADD_LOG of both devices
InitStoreSpec ==
    /\ InitAcc /\ InitFleet /\ InitLines("") /\ InitConn /\ clients = <<>>
    /\ \E na \in PrefillUpdates, nb \in PrefillUpdates :
          /\ updates = Prefilled(na, nb)
          /\ addedUpdates = Prefilled(na, nb)
          /\ messageCount = na + nb
          /\ deviceIds = SelectSeq(<<"device-a", "device-b">>,
                                   LAMBDA d : (d = "device-a" /\ na > 0) \/ (d = "device-b" /\ nb > 0))
    /\ \E na \in PrefillLogs, nb \in PrefillLogs :
          /\ logs = Prefilled(na, nb)
          /\ addedLogs = Prefilled(na, nb)
    /\ steps = 0
StoreAddUpdate ==
    \E d \in Devices : AddUpdate([device |-> d, id |-> Len(addedUpdates) + 1])
StoreAddLog ==
    \E d \in Devices : AddLog([device |-> d, id |-> Len(addedLogs) + 1])
NextStore == StoreAddUpdate \/ StoreAddLog
SpecStore == InitStoreSpec /\ [][NextStore]_vars

\* SpecLines: calls of fetchLineNames, responses and retries, with the GQL
\* URL configured or not
InitLinesSpec ==
    /\ InitAcc /\ InitFleet /\ InitStore /\ InitConn /\ clients = <<>>
    /\ \E u \in {"", GqlUrl} : InitLines(u)
LinesCall == \E ids \in SUBSET LineIds : CallFetchLineNames(ids)
LinesSucceed == \E rq \in requests : \E lines \in ResponseLines(rq.ids) : FetchSucceeds(rq, lines)
LinesFail == \E rq \in requests : FetchFails(rq)
LinesRetry == \E tm \in timers : RetryFires(tm)
NextLines == LinesCall \/ LinesSucceed \/ LinesFail \/ LinesRetry
SpecLines == InitLinesSpec /\ [][NextLines]_vars

\* SpecRetry: the same with the URL configured and every fetch failing
InitRetrySpec == InitAcc /\ InitFleet /\ InitStore /\ InitLines(GqlUrl) /\ InitConn /\ clients = <<>>
NextRetry == LinesCall \/ LinesFail \/ LinesRetry
SpecRetry == InitRetrySpec /\ [][NextRetry]_vars

Spec == SpecFleet

----------------------------------------------------------------------------
(* Properties of calcOverallScore (SpecFleet) *)

\* a verdict has been computed for the current clients
Called == result # NoResult

\* the array xs without its element i
RemoveAt(xs, i) == SubSeq(xs, 1, i - 1) \o SubSeq(xs, i + 1, Len(xs))

\* the Good and the Poor rule, read off a verdict
GoodRule(v) ==
    /\ Le(Num(80), v.p50)
    /\ Lt(v.redRatio, Fin(5, 100))
    /\ Lt(v.yellowRatio, Fin(20, 100))
PoorRule(v) == Lt(v.p50, Num(50)) \/ Le(Fin(15, 100), v.redRatio)

ClaimedCountBase(ss, t) ==
    Cardinality({k \in DOMAIN ss : 0 <= t - ss[k].ts /\ t - ss[k].ts <= 45000})
ClaimedW(ss, t) ==
    LET cb == ClaimedCountBase(ss, t)
        scale == IF cb > 0 THEN (5 + cb - 1) \div cb ELSE 4
        wide == 45000 * (IF scale > 1 THEN scale ELSE 1)
    IN  IF wide < 180000 THEN wide ELSE 180000

\* client i has no sample with 0 <= now - ts <= W, W its widened window
NoSampleInWindow(i) ==
    LET ss == clients[i].samples
        W == ClaimedW(ss, now)
    IN  \A k \in DOMAIN ss : ~(0 <= now - ss[k].ts /\ now - ss[k].ts <= W)

\* C2: a client without a sample in its window is scored null, never 0, and
\* the verdict equals the verdict of the fleet without that client.
C2_NoDataIgnored ==
    Called =>
        \A i \in DOMAIN clients :
            NoSampleInWindow(i) =>
                /\ raw[i] = Null
                /\ result = calcOverallScore(RemoveAt(clients, i), now, expectedHz)

\* a fleet with a client without data next to a scored red client
C2_Witness ==
    /\ Called
    /\ \E i, j \in DOMAIN clients :
        /\ NoSampleInWindow(i)
        /\ raw[j].kind = "fin"
        /\ Lt(raw[j], Num(40))

\* no client of the fleet is scored
NoneScored == \A i \in DOMAIN clients : raw[i].kind # "fin"

\* C3 as claimed: with no scored client the label is Moderate.
C3_Claimed_EmptyIsModerate ==
    (Called /\ NoneScored) => result.label = "Moderate"

\* C3: with no scored client (no client, or every client without data) the
\* statistics are p50 = 0, redRatio = 0, yellowRatio = 0 and the label is Poor.
C3_EmptyIsPoor ==
    (Called /\ NoneScored) =>
        result = [p50 |-> Num(0), redRatio |-> Num(0), yellowRatio |-> Num(0),
                  label |-> "Poor"]

\* a verdict of a fleet of several clients, all without data
C3_Witness ==
    /\ Called
    /\ Len(clients) >= 2
    /\ \A i \in DOMAIN clients : NoSampleInWindow(i)

\* the scores of the scored clients, in the clients' order
ScoredRaw == SelectSeq(raw, LAMBDA x : x.kind = "fin")

\* the k-th smallest element of xs
KthSmallest(xs, k) ==
    CHOOSE x \in {xs[i] : i \in DOMAIN xs} :
        /\ Cardinality({i \in DOMAIN xs : Lt(xs[i], x)}) < k
        /\ k <= Cardinality({i \in DOMAIN xs : Le(xs[i], x)})

ClaimedMedian(xs) ==
    LET n == Len(xs)
    IN  IF n = 0 THEN Num(0)
        ELSE IF n % 2 = 1 THEN KthSmallest(xs, (n + 1) \div 2)
        ELSE Div(Add(KthSmallest(xs, n \div 2), KthSmallest(xs, (n \div 2) + 1)), Num(2))

\* C15: p50 is the median of the scores of the scored clients: the middle one
\* in ascending order for an odd count, the average of the two middle ones for
\* an even count, 0 when no client is scored; it lies between the lowest and
\* the highest score.
C15_Median ==
    Called =>
        /\ result.p50 = ClaimedMedian(ScoredRaw)
        /\ ScoredRaw # <<>> =>
              /\ \E i \in DOMAIN ScoredRaw : Le(ScoredRaw[i], result.p50)
              /\ \E i \in DOMAIN ScoredRaw : Le(result.p50, ScoredRaw[i])

\* an even number of scored clients, not in ascending order, whose two middle
\* scores differ: p50 is strictly between them
C15_Witness ==
    /\ Called
    /\ Len(ScoredRaw) = 4
    /\ \E i \in 1 .. 3 : Lt(ScoredRaw[i + 1], ScoredRaw[i])
    /\ Lt(KthSmallest(ScoredRaw, 2), result.p50)
    /\ Lt(result.p50, KthSmallest(ScoredRaw, 3))

\* the label when the Poor rule is evaluated before the Good rule
LabelPoorFirst(v) ==
    IF PoorRule(v) THEN "Poor" ELSE IF GoodRule(v) THEN "Good" ELSE "Moderate"

\* C28: the Good rule and the Poor rule never both hold of the statistics of
\* a verdict, and the label is the one obtained with the Poor rule evaluated
\* first.
C28_RulesExclusive ==
    Called =>
        /\ ~(GoodRule(result) /\ PoorRule(result))
        /\ result.label = LabelPoorFirst(result)

\* a verdict with a median of 80 or more and few yellow clients that is Poor
\* by its red ratio alone
C28_Witness ==
    /\ Called
    /\ Le(Num(80), result.p50)
    /\ Lt(result.yellowRatio, Fin(2, 10))
    /\ Le(Fin(15, 100), result.redRatio)
    /\ result.label = "Poor"

----------------------------------------------------------------------------
(* Properties of accScoreLinear (SpecSample) *)

\* accScoreLinear has been called
Scored == accOut # Undefined

\* the thresholds g, y, r of the latest call
ThresholdG == Add(Num(12), SpeedBoost(SpeedOrDefault(accIn.speedKmh)))
ThresholdY == Add(Num(35), SpeedBoost(SpeedOrDefault(accIn.speedKmh)))
ThresholdR == Add(Num(80), SpeedBoost(SpeedOrDefault(accIn.speedKmh)))

\* the four segments of the score of a finite error, and its range
SegmentsHold ==
    LET m == accIn.m
        g == ThresholdG
        y == ThresholdY
        r == ThresholdR
    IN  /\ Lt(g, y) /\ Lt(y, r)
        /\ Le(m, g) => accOut = Num(100)
        /\ (Lt(g, m) /\ Le(m, y)) =>
              accOut = Sub(Num(100), Div(Mul(Sub(m, g), Num(40)), Sub(y, g)))
        /\ (Lt(y, m) /\ Le(m, r)) =>
              accOut = Sub(Num(60), Div(Mul(Sub(m, y), Num(40)), Sub(r, y)))
        /\ Lt(r, m) => accOut = Num(0)
        /\ Le(Num(0), accOut) /\ Le(accOut, Num(100))

\* the score of error e at speed 0 is x
AtSpeed0(e, x) == (accIn.speedKmh = Num(0) /\ accIn.m = e) => accOut = x

\* C4 as claimed: the four segments, and at speed 0 the scores 100, 80, 60 and
\* 0 for the errors 12, 23.5, 35 and 80.
C4_Claimed_Score80Is0 ==
    (Scored /\ IsFiniteNumber(accIn.m)) =>
        /\ SegmentsHold
        /\ AtSpeed0(Num(12), Num(100))
        /\ AtSpeed0(Fin(47, 2), Num(80))
        /\ AtSpeed0(Num(35), Num(60))
        /\ AtSpeed0(Num(80), Num(0))

\* C4: for a finite error m the score is 100 up to g, 100 - (m-g)*40/(y-g) up
\* to y, 60 - (m-y)*40/(r-y) up to r and 0 above r; at speed 0 the errors 12,
\* 23.5, 35 and 80 score 100, 80, 60 and 20; the score is within [0, 100].
C4_Piecewise ==
    (Scored /\ IsFiniteNumber(accIn.m)) =>
        /\ SegmentsHold
        /\ AtSpeed0(Num(12), Num(100))
        /\ AtSpeed0(Fin(47, 2), Num(80))
        /\ AtSpeed0(Num(35), Num(60))
        /\ AtSpeed0(Num(80), Num(20))

\* the call accScoreLinear(80, 0), which returned 20
C4_Witness ==
    /\ accIn = [m |-> Num(80), speedKmh |-> Num(0)]
    /\ accOut = Num(20)

\* the boost of C5
ClaimedBoost(v) ==
    IF v.kind # "fin" THEN Num(0)
    ELSE IF Le(Num(90), v) THEN Num(10)
    ELSE IF Le(Num(50), v) THEN Add(Num(5), Div(Mul(Sub(v, Num(50)), Num(5)), Num(40)))
    ELSE Num(0)

TwoFinite ==
    /\ Scored
    /\ accPrev.out # Undefined
    /\ IsFiniteNumber(accPrev.m)
    /\ IsFiniteNumber(accIn.m)

\* C7: of two calls with the same speed, the one with the larger finite error
\* does not score higher.
C7_MonotoneInError ==
    (TwoFinite /\ accPrev.speedKmh = accIn.speedKmh /\ Le(accPrev.m, accIn.m)) =>
        Le(accOut, accPrev.out)

\* the calls accScoreLinear(35, 0) and then accScoreLinear(40, 0): across y
C7_Witness ==
    /\ accPrev.m = Num(35) /\ accPrev.speedKmh = Num(0)
    /\ accIn = [m |-> Num(40), speedKmh |-> Num(0)]
    /\ accPrev.out = Num(60)
    /\ Lt(accOut, accPrev.out)

\* C8: of two calls with the same finite error, the one with the larger speed
\* does not score lower.
C8_MonotoneInSpeed ==
    (/\ TwoFinite
     /\ accPrev.m = accIn.m
     /\ IsFiniteNumber(accPrev.speedKmh) /\ IsFiniteNumber(accIn.speedKmh)
     /\ Le(accPrev.speedKmh, accIn.speedKmh)) =>
        Le(accPrev.out, accOut)

\* the calls accScoreLinear(20, 70) and then accScoreLinear(20, 90): across
\* the end of the interpolated band
C8_Witness ==
    /\ accPrev.m = Num(20) /\ accPrev.speedKmh = Num(70)
    /\ accIn = [m |-> Num(20), speedKmh |-> Num(90)]
    /\ Lt(accPrev.out, accOut)

\* speeds just below 50 km/h and just below 90 km/h
BelowFifty == {Num(49), Fin(499, 10), Fin(4999, 100)}
BelowNinety == {Num(89), Fin(899, 10), Fin(8999, 100)}

\* C25 as claimed: the score at 50 km/h is the score just below 50 km/h
C25_Claimed_NoJumpAt50 ==
    (Scored /\ IsFiniteNumber(accIn.m) /\ accIn.speedKmh = Num(50)) =>
        \A v \in BelowFifty : accScoreLinear(accIn.m, v) = accOut

\* C25: at 50 km/h the thresholds jump by 5: the score at 50 km/h is the
\* score just below 50 km/h of an error 5 m smaller; at 90 km/h there is no
\* jump: the score at a speed v just below 90 km/h is the score at 90 km/h of
\* an error (90 - v)/8 m larger.
C25_JumpAt50Only ==
    /\ (Scored /\ IsFiniteNumber(accIn.m) /\ accIn.speedKmh = Num(50)) =>
          \A v \in BelowFifty : accScoreLinear(Sub(accIn.m, Num(5)), v) = accOut
    /\ (Scored /\ IsFiniteNumber(accIn.m) /\ accIn.speedKmh = Num(90)) =>
          \A v \in BelowNinety :
              accScoreLinear(Sub(accIn.m, Div(Sub(Num(90), v), Num(8))), v) = accOut

\* the call accScoreLinear(20, 50): g = 17, a higher score than just below
\* 50 km/h, where g = 12
C25_Witness ==
    /\ accIn.m = Num(20)
    /\ accIn.speedKmh = Num(50)
    /\ \A v \in BelowFifty : Lt(accScoreLinear(Num(20), v), accOut)

----------------------------------------------------------------------------
(* Properties of scoreClient (SpecDevice) *)

\* the client of SpecDevice and its samples
Device == clients[1]
DeviceSamples == clients[1].samples

\* the age of sample k at the latest call
Age(k) == now - DeviceSamples[k].ts

NonNumbers == {Undefined, Null, NaN, PosInf, NegInf}

\* client c with error e in place of every accuracy that is no finite number
WithError(c, e) ==
    [c EXCEPT !.samples =
        [k \in DOMAIN c.samples |->
            IF IsFiniteNumber(c.samples[k].accuracyM) THEN c.samples[k]
            ELSE [c.samples[k] EXCEPT !.accuracyM = e]]]

\* C6: an error that is no finite number scores 0 at every speed, and a sample
\* with such an error is scored as a sample with an error beyond every
\* threshold: it stays in the working set, adds a 0 to the accuracy mean and
\* counts for freshness and availability; the client's score is a finite number.
C6_NonFiniteScoresZero ==
    Called =>
        /\ \A m \in NonNumbers, v \in AccSpeeds : accScoreLinear(m, v) = Num(0)
        /\ raw[1] = scoreClient(WithError(Device, Num(1000)), now, expectedHz)
        /\ raw[1].kind \in {"fin", "null"}

\* a scored client whose base window holds a sample without accuracy and an
\* accurate one
C6_Witness ==
    /\ Called
    /\ raw[1].kind = "fin"
    /\ \E j, k \in DOMAIN DeviceSamples :
        /\ DeviceSamples[j].accuracyM = Undefined
        /\ DeviceSamples[k].accuracyM = Num(5)
        /\ 0 <= Age(j) /\ Age(j) <= 45000
        /\ 0 <= Age(k) /\ Age(k) <= 45000

\* C9: the window is W = min(180000, 45000 * max(1, scale)), scale =
\* ceil(5 / countBase) or 4 when countBase = 0, which is 45000 for countBase
\* >= 5, 90000 for 3 and 4, 135000 for 2 and 180000 for 0 and 1; the working
\* set is the samples with 0 <= now - ts <= W, and the score is computed from
\* that set and that W.
C9_WindowSelection ==
    Called =>
        LET cb == ClaimedCountBase(DeviceSamples, now)
            W == ClaimedW(DeviceSamples, now)
            win == SelectSeq(DeviceSamples, LAMBDA s : 0 <= now - s.ts /\ now - s.ts <= W)
        IN  /\ W = (IF cb >= 5 THEN 45000
                    ELSE IF cb >= 3 THEN 90000
                    ELSE IF cb = 2 THEN 135000
                    ELSE 180000)
            /\ WindowW(DeviceSamples, now) = W
            /\ WorkingSet(DeviceSamples, now) = win
            /\ raw[1] = (IF win = <<>> THEN Null
                         ELSE Composite(TrimmedMean(AccScores(win)),
                                        Freshness(win, now),
                                        Availability(Len(win), W, expectedHz)))

\* a scored client with two samples in the base window and one between 90 s
\* and 135 s old, which the window of 135 s takes in
C9_Witness ==
    /\ Called
    /\ raw[1].kind = "fin"
    /\ ClaimedCountBase(DeviceSamples, now) = 2
    /\ \E k \in DOMAIN DeviceSamples : 90000 < Age(k) /\ Age(k) <= 135000
    /\ Len(WorkingSet(DeviceSamples, now)) = 3

\* client c without its samples of the future and its samples older than MAX_W
Relevant(c, t) ==
    [c EXCEPT !.samples =
        SelectSeq(c.samples, LAMBDA s : ~(s.ts > t) /\ ~(t - s.ts > 180000))]

\* C10: the client's score and the verdict are those of the client without its
\* samples of the future and its samples older than 180000 ms.
C10_IrrelevantSamples ==
    Called =>
        /\ raw[1] = scoreClient(Relevant(Device, now), now, expectedHz)
        /\ result = calcOverallScore(<<Relevant(Device, now)>>, now, expectedHz)

\* a scored client with a sample of the future and a sample in its window
C10_Witness ==
    /\ Called
    /\ raw[1].kind = "fin"
    /\ \E k \in DOMAIN DeviceSamples : DeviceSamples[k].ts > now
    /\ Len(Relevant(Device, now).samples) < Len(DeviceSamples)


\* the working set of the client of SpecDevice, by the windowing rule
ClaimedWin ==
    LET W == ClaimedW(DeviceSamples, now)
    IN  SelectSeq(DeviceSamples, LAMBDA s : 0 <= now - s.ts /\ now - s.ts <= W)

\* the sub-scores A, F and V of the client of SpecDevice
SubA == TrimmedMean(AccScores(ClaimedWin))
SubF == Freshness(ClaimedWin, now)
SubV == Availability(Len(ClaimedWin), ClaimedW(DeviceSamples, now), expectedHz)

\* the age in ms of the newest sample of the working set
NewestAge ==
    LET newest == CHOOSE k \in DOMAIN ClaimedWin :
                      \A j \in DOMAIN ClaimedWin : ClaimedWin[j].ts <= ClaimedWin[k].ts
    IN  now - ClaimedWin[newest].ts

InUnit(x) == Le(Num(0), x) /\ Le(x, Num(100))

ClaimedF(age) ==
    LET a == IF age > 0 THEN age ELSE 0
    IN  IF a <= 10000 THEN Num(100)
        ELSE IF a >= 60000 THEN Num(0)
        ELSE Mul(Num(100), Sub(Num(1), Div(Sub(Fin(a, 1000), Num(10)), Num(50))))

\* C12: F is 100 up to an age of 10 s of the newest sample of the working set,
\* 0 from 60 s, and 100*(1 - (age - 10)/50) in between, whatever the window
\* and the number of samples; the score is computed with that F.
C12_Freshness ==
    (Called /\ ClaimedWin # <<>>) =>
        /\ SubF = ClaimedF(NewestAge)
        /\ raw[1] = Composite(SubA, ClaimedF(NewestAge), SubV)

\* a scored client with samples of two ages in its working set, the newest
\* between 10 s and 60 s old
C12_Witness ==
    /\ Called
    /\ ClaimedWin # <<>>
    /\ NewestAge > 10000 /\ NewestAge < 60000
    /\ \E k \in DOMAIN ClaimedWin : now - ClaimedWin[k].ts > NewestAge
    /\ Lt(Num(0), SubF) /\ Lt(SubF, Num(100))

\* r = (n / (W/1000)) / hz, or 1 when hz <= 0
ClaimedR(n, W, hz) ==
    IF Le(hz, Num(0)) THEN Num(1) ELSE Div(Div(Num(n), Fin(W, 1000)), hz)

\* V = 100 * clamp((r - 0.3)/0.5, 0, 1)
ClaimedV(r) ==
    LET x == Div(Sub(r, Fin(3, 10)), Fin(5, 10))
    IN  IF Lt(x, Num(0)) THEN Num(0)
        ELSE IF Lt(Num(1), x) THEN Num(100)
        ELSE Mul(Num(100), x)

C18_FreshAccurateSample ==
    (/\ Called
     /\ Len(DeviceSamples) = 1
     /\ DeviceSamples[1].ts = now
     /\ DeviceSamples[1].accuracyM = Num(5)
     /\ Lt(Num(0), expectedHz)) =>
        /\ raw[1].kind = "fin"
        /\ Lt(Num(80), raw[1])
        /\ Le(Num(95), raw[1])

\* such a client scored with the default expectedHz, far above its rate
C18_Witness ==
    /\ Called
    /\ Len(DeviceSamples) = 1
    /\ DeviceSamples[1].ts = now
    /\ DeviceSamples[1].accuracyM = Num(5)
    /\ expectedHz = Num(1)
    /\ raw[1] = Num(95)


----------------------------------------------------------------------------
(* Properties of the trimmed mean (SpecTrim) *)

\* xs without k of its lowest and k of its highest elements
RECURSIVE DropExtremes(_, _)
DropExtremes(xs, k) ==
    IF k = 0 THEN xs
    ELSE LET lo == CHOOSE i \in DOMAIN xs : \A j \in DOMAIN xs : Le(xs[i], xs[j])
             ys == RemoveAt(xs, lo)
             hi == CHOOSE i \in DOMAIN ys : \A j \in DOMAIN ys : Le(ys[j], ys[i])
         IN  DropExtremes(RemoveAt(ys, hi), k - 1)

Mean(xs) == Div(SumSeq(xs), Num(Len(xs)))

\* the per-sample scores of the working set, in the order of the samples
WinScores ==
    [k \in DOMAIN ClaimedWin |->
        accScoreLinear(ClaimedWin[k].accuracyM, ClaimedWin[k].speedKmh)]

\* the symmetric 10% trimmed mean of the per-sample scores
ClaimedA ==
    LET n == Len(WinScores)
        trim == n \div 10
    IN  IF n > 2 * trim THEN Mean(DropExtremes(WinScores, trim)) ELSE Mean(WinScores)

\* C14: A is the mean of the per-sample scores of the working set without
\* the floor(n/10) lowest and the floor(n/10) highest of them; below 10
\* samples it is the mean of all of them; the score is computed with that A.
C14_TrimmedMean ==
    (Called /\ ClaimedWin # <<>>) =>
        /\ SubA = ClaimedA
        /\ raw[1] = Composite(ClaimedA, SubF, SubV)
        /\ Len(WinScores) < 10 => SubA = Mean(WinScores)

\* a scored client of 10 samples whose trimmed mean is not the mean: the
\* lowest and the highest score differ from it
C14_Witness ==
    /\ Called
    /\ Len(ClaimedWin) = 10
    /\ ClaimedA # Mean(WinScores)
    /\ raw[1] = Composite(ClaimedA, Num(100), Num(0))


\* C30: with a non-empty working set of n samples, n > 2 * floor(n * 0.10),
\* so the scores are never used untrimmed for want of enough of them, at
\* least one score remains after trimming, and the score is a finite number.
C30_TrimNeverEmpty ==
    (Called /\ ClaimedWin # <<>>) =>
        LET n == Len(ClaimedWin)
            trim == Floor(Mul(Num(n), Fin(1, 10)))
        IN  /\ n > 2 * trim
            /\ n - 2 * trim >= 1
            /\ SubA.kind = "fin"
            /\ raw[1].kind = "fin"

\* a scored client of 10 samples: one score is dropped at each end and 8
\* remain
C30_Witness ==
    /\ Called
    /\ Len(ClaimedWin) = 10
    /\ Floor(Mul(Num(10), Fin(1, 10))) = 1
    /\ raw[1].kind = "fin"
    /\ SubA = Mean(DropExtremes(WinScores, 1))

----------------------------------------------------------------------------
(* Properties of the ratios (SpecBand) *)

\* the number of scored clients with a score from lo and below hi
CountIn(lo, hi) ==
    Cardinality({i \in DOMAIN ScoredRaw : Le(lo, ScoredRaw[i]) /\ Lt(ScoredRaw[i], hi)})

\* the number of scored clients with a score below hi
CountBelow(hi) == Cardinality({i \in DOMAIN ScoredRaw : Lt(ScoredRaw[i], hi)})

\* the number of scored clients with the score x
CountAt(x) == Cardinality({i \in DOMAIN ScoredRaw : ScoredRaw[i] = x})

ScoredTotal == IF Len(ScoredRaw) > 1 THEN Len(ScoredRaw) ELSE 1

\* C16: redRatio is the number of scored clients below 40, and yellowRatio the
\* number of those from 40 and below 70, over max(1, scoredCount); a score of
\* exactly 40 counts as yellow and one of exactly 70 as neither; both ratios
\* are within [0, 1], and 0 when no client is scored.
C16_Ratios ==
    Called =>
        LET R == result.redRatio
            Y == result.yellowRatio
        IN  /\ R = Fin(CountBelow(Num(40)), ScoredTotal)
            /\ Y = Fin(CountIn(Num(40), Num(70)), ScoredTotal)
            /\ Le(Fin(CountAt(Num(40)), ScoredTotal), Y)
            /\ Le(Fin(CountAt(Num(70)), ScoredTotal), Sub(Num(1), Add(R, Y)))
            /\ Le(Num(0), R) /\ Le(R, Num(1))
            /\ Le(Num(0), Y) /\ Le(Y, Num(1))
            /\ ScoredRaw = <<>> => R = Num(0) /\ Y = Num(0)

\* four scored clients: one of exactly 40, one of exactly 70, a red and a
\* green one
C16_Witness ==
    /\ Called
    /\ Len(ScoredRaw) = 4
    /\ \E i \in 1 .. 4 : ScoredRaw[i] = Num(40)
    /\ \E i \in 1 .. 4 : ScoredRaw[i] = Num(70)
    /\ result.redRatio = Fin(1, 4)
    /\ result.yellowRatio = Fin(1, 4)

----------------------------------------------------------------------------
(* Properties of the order of samples and clients (SpecOrder) *)

\* xs with the elements at k and k + 1 exchanged
SwapAt(xs, k) ==
    [j \in DOMAIN xs |-> IF j = k THEN xs[k + 1] ELSE IF j = k + 1 THEN xs[k] ELSE xs[j]]

\* the orders of three clients
Orders(a, b, c) == {<<a, b, c>>, <<a, c, b>>, <<b, a, c>>, <<b, c, a>>, <<c, a, b>>, <<c, b, a>>}

\* two more clients, of one sample each: an accurate one at time 0 and one
\* without accuracy at 6 * TimeStep
OtherA == [id |-> 2, samples |-> <<[ts |-> 0, accuracyM |-> Num(5), speedKmh |-> Undefined]>>]
OtherB ==
    [id |-> 3,
     samples |-> <<[ts |-> 6 * TimeStep, accuracyM |-> Undefined, speedKmh |-> Undefined]>>]

\* C19: the score of a client is the same with any two neighbouring samples
\* exchanged (so in every order of its samples), it is the same in a fleet
\* with other clients, at any place of the list, and the verdict of a fleet
\* is the same in every order of its clients.
C19_OrderIndependent ==
    Called =>
        /\ \A k \in 1 .. Len(DeviceSamples) - 1 :
              scoreClient([Device EXCEPT !.samples = SwapAt(@, k)], now, expectedHz) = raw[1]
        /\ \A v \in {calcOverallScore(<<Device, OtherA, OtherB>>, now, expectedHz)} :
           \A cs \in Orders(Device, OtherA, OtherB) :
           \A r \in {RawScores(cs, now, expectedHz)} :
              /\ \A i \in 1 .. 3 : cs[i] = Device => r[i] = raw[1]
              /\ Verdict(r) = v

\* a scored client whose working set holds samples of two times, the newest
\* not last, and which scores strictly between two other scored clients
C19_Witness ==
    /\ Called
    /\ ClaimedWin # <<>>
    /\ \E k \in 1 .. Len(ClaimedWin) - 1 : ClaimedWin[k + 1].ts < ClaimedWin[k].ts
    /\ \E r \in {RawScores(<<OtherA, OtherB>>, now, expectedHz)} :
          /\ r[1].kind = "fin" /\ r[2].kind = "fin"
          /\ Lt(r[2], raw[1]) /\ Lt(raw[1], r[1])

----------------------------------------------------------------------------
(* Properties of locationReducer (SpecStore) *)

OfDevice(xs, d) == SelectSeq(xs, LAMBDA e : e.device = d)

FirstOf(xs, n) == SubSeq(xs, 1, IF Len(xs) < n THEN Len(xs) ELSE n)

\* the list holds, for every device, the at most maxPerDevice entries added
\* last for it, in their order, and starts with the entry added last of all
MostRecentPerDevice(list, added, maxPerDevice) ==
    /\ \A d \in Devices :
          /\ Len(OfDevice(list, d)) <= maxPerDevice
          /\ OfDevice(list, d) = FirstOf(OfDevice(added, d), maxPerDevice)
    /\ added # <<>> => list # <<>> /\ list[1] = added[1]

\* C20: after any sequence of ADD_UPDATE and ADD_LOG every device has at most
\* 500 updates and at most 500 logs retained, they are the ones added last for
\* it, the entry added last of all is first in its list, and no entry of a
\* device is dropped for an entry of another device.
C20_PerDeviceLimit ==
    /\ MostRecentPerDevice(updates, addedUpdates, 500)
    /\ MostRecentPerDevice(logs, addedLogs, 500)

\* device-a has sent more than 500 updates and more than 500 logs, device-b
\* has sent some of both, the last update is device-b's, and all of device-b's
\* are retained
C20_Witness ==
    /\ Len(OfDevice(addedUpdates, "device-a")) > 500
    /\ Len(OfDevice(addedLogs, "device-a")) > 500
    /\ Len(OfDevice(updates, "device-a")) = 500
    /\ Len(OfDevice(logs, "device-a")) = 500
    /\ updates[1].device = "device-b"
    /\ OfDevice(logs, "device-b") # <<>>
    /\ OfDevice(updates, "device-b") = OfDevice(addedUpdates, "device-b")

----------------------------------------------------------------------------
(* Properties of fetchLineNames (SpecLines, SpecRetry) *)

\* the requests in flight that contain id
InFlight(id) == {rq \in requests : id \in rq.ids}

\* no id is in two requests in flight, pendingIds are the ids in flight, no
\* resolved id is in flight, and nothing is fetched without a URL
NoDuplicateRequest ==
    /\ \A id \in LineIds : Cardinality(InFlight(id)) <= 1
    /\ pendingIds = UNION {rq.ids : rq \in requests}
    /\ \A rq \in requests : rq.ids # {} /\ rq.ids \cap resolvedIds = {}
    /\ gqlUrl = "" => nFetch = 0

\* a call with nothing new to ask for, or without a URL, fetches nothing, and
\* a fetch asks only for ids that were neither resolved nor pending
NoNeedlessFetch ==
    /\ \A ids \in SUBSET LineIds :
          (CallFetchLineNames(ids) /\ (ids \subseteq resolvedIds \cup pendingIds \/ gqlUrl = ""))
              => nFetch' = nFetch /\ requests' = requests
    /\ \A rq \in requests' \ requests :
          rq.ids \cap (resolvedIds \cup pendingIds) = {} /\ gqlUrl # ""

\* C21: at most one request with a given id is in flight, a resolved id is
\* never requested again, and a call whose ids are all resolved or pending,
\* whose id list is empty, or made without a GQL URL fetches nothing.
C21_NoDuplicateFetch == []NoDuplicateRequest /\ [][NoNeedlessFetch]_vars

\* after two calls id "1" is resolved and only the other id of the second
\* call is in flight
C21_Witness ==
    /\ lineCalls = 2
    /\ resolvedIds = {"1"}
    /\ nFetch = 2
    /\ \E rq \in requests : rq.ids = {"02"} /\ requests = {rq}

\* the cache keys the then handler writes for the lines with a name, or a
\* colour
WrittenNames(lines) == {StringOf(n) : n \in {k \in DOMAIN lines : lines[k].nameShort # ""}}
WrittenColours(lines) == {StringOf(n) : n \in {k \in DOMAIN lines : lines[k].color # ""}}

\* the step settles a request with a lines array
SettlesOk == settled' # settled /\ settled'.ok

\* C29: when a request succeeds every id of it becomes resolved and none
\* stays pending, also the ids without a line or with a line of empty name;
\* the cache gains entries only for the lines with a name (the colour cache,
\* with a colour) and loses none; the listeners are notified once if anything
\* was written and not otherwise; and resolved ids are not in flight again.
C29_SuccessResolvesBatch ==
    /\ [](\A rq \in requests : rq.ids \cap resolvedIds = {})
    /\ [][SettlesOk =>
            LET ids == settled'.ids
                lines == settled'.lines
                wrote == WrittenNames(lines) # {} \/ WrittenColours(lines) # {}
            IN  /\ resolvedIds' = resolvedIds \cup ids
                /\ pendingIds' = pendingIds \ ids
                /\ DOMAIN cache' = DOMAIN cache \cup WrittenNames(lines)
                /\ DOMAIN colorCache' = DOMAIN colorCache \cup WrittenColours(lines)
                /\ \A id \in DOMAIN cache' : cache'[id] # ""
                /\ \A id \in DOMAIN cache \ WrittenNames(lines) : cache'[id] = cache[id]
                /\ \A id \in DOMAIN colorCache \ WrittenColours(lines) :
                      colorCache'[id] = colorCache[id]
                /\ notified' = IF wrote THEN notified + 1 ELSE notified]_vars

\* the request for "1" and "02" succeeded with a named line 1 and a line 2
\* of empty name without colour: both are resolved, only "1" is cached and
\* the listeners were notified once
C29_Witness ==
    /\ settled.ok
    /\ settled.ids = {"1", "02"}
    /\ DOMAIN settled.lines = {1, 2}
    /\ settled.lines[2] = [nameShort |-> "", color |-> ""]
    /\ resolvedIds = {"1", "02"}
    /\ pendingIds = {}
    /\ DOMAIN cache = {"1"}
    /\ notified = 1

\* no request is in flight and no retry is scheduled
Quiet == requests = {} /\ timers = {}

\* while every fetch fails: retries are numbered up to 3 and scheduled after
\* 2000, 4000 and 8000 ms, nothing is cached or resolved, and one call makes
\* at most 4 fetches, exactly 4 when it has come to rest, with nothing pending
RetriesBounded ==
    /\ \A rq \in requests : rq.retryCount <= 3
    /\ \A tm \in timers :
          /\ tm.retryCount \in 1 .. 3
          /\ tm.delay = (CASE tm.retryCount = 1 -> 2000
                           [] tm.retryCount = 2 -> 4000
                           [] tm.retryCount = 3 -> 8000)
    /\ cache = <<>> /\ colorCache = <<>> /\ resolvedIds = {} /\ notified = 0
    /\ lineCalls = 1 =>
          /\ nFetch <= 4
          /\ (Quiet /\ nFetch > 0) =>
                /\ nFetch = 4
                /\ pendingIds = {}
                /\ settled.n = 4 /\ settled.ids # {}

\* a call for the same ids after the retries have ended fetches again
FetchesAgain ==
    (lineCalls = 1 /\ Quiet /\ nFetch = 4 /\ CallFetchLineNames(settled.ids))
        => /\ nFetch' = 5
           /\ requests' = {[n |-> 5, ids |-> settled.ids, retryCount |-> 0]}

\* C22: when every fetch of a call fails and no other call is made, 4 fetches
\* are made, the retries after 2000, 4000 and 8000 ms, and no more; the caches
\* stay as they were, the ids end neither resolved nor pending, and a later
\* call for them fetches again.
C22_RetriesThenStops == []RetriesBounded /\ [][FetchesAgain]_vars

\* after the 4 failed fetches of the first call a second call for the same
\* ids has made the fifth fetch
C22_Witness ==
    /\ lineCalls = 2
    /\ nFetch = 5
    /\ timers = {}
    /\ settled.n = 4
    /\ requests = {[n |-> 5, ids |-> settled.ids, retryCount |-> 0]}

----------------------------------------------------------------------------
(* Properties of useWebSocket (SpecHook, FairHook) *)

\* the step delivers the close event of socket s
ClosedBy(s) == readyState[s] # "NONE" /\ readyState'[s] = "NONE"

\* the step leaves the reconnect timers as they are
NoTimeoutChange ==
    /\ pendingTimeouts' = pendingTimeouts
    /\ reconnectTimeoutRef' = reconnectTimeoutRef

\* disconnect() has been called and connect() has not run since
Disconnected == manuallyClosedRef

AfterDisconnect_State == Disconnected => ~isConnected /\ pendingTimeouts = {}
AfterDisconnect_Step ==
    Disconnected =>
        /\ \A s \in Sockets : ClosedBy(s) => NoTimeoutChange
        /\ (\E s \in Sockets : readyState[s] = "NONE" /\ readyState'[s] # "NONE")
               => calls' = calls + 1

\* C23: once disconnect() has been called, and until connect() is called
\* again, isConnected is false, no reconnect timer is pending, a close event
\* schedules no reconnect, and no new WebSocket is created
C23_Claimed_DisconnectStops == []AfterDisconnect_State /\ [][AfterDisconnect_Step]_vars

\* a close event that arrived and was not ignored, with no disconnect() since
ClosedUnasked ==
    /\ autoReconnect
    /\ url # NoUrl
    /\ last.op = "close"
    /\ last.onClose
    /\ ~manuallyClosedRef

TimeoutsAreIntervals == \A tm \in pendingTimeouts : tm.delay = reconnectInterval
ClosedSchedules == ClosedUnasked => last.scheduled /\ reconnectTimeoutRef # NoTimeout

\* C24: with autoReconnect and a url, a close event that is handled without
\* disconnect() having been called sets a timer of reconnectInterval, and
\* leads to a new WebSocket unless disconnect() is called first; this holds
\* for every such close, however many came before
C24_ReconnectsForever ==
    /\ [](TimeoutsAreIntervals /\ ClosedSchedules)
    /\ (ClosedUnasked ~> (last.created \/ manuallyClosedRef))

\* a timer created the third socket in a row after two closes, the
\* application having called connect() once and never disconnect()
C24_Witness ==
    /\ autoReconnect
    /\ calls = 1
    /\ last.op = "timeout"
    /\ last.created
    /\ wsRef = last.ws
    /\ readyState[wsRef] = "CONNECTING"
    /\ pendingTimeouts = {}

AtMostOneLive == Cardinality({s \in Sockets : Live(s)}) <= 1
AtMostOneTimeout == Cardinality(pendingTimeouts) <= 1
StaleCloseIgnored ==
    \A s \in Sockets :
        ClosedBy(s) /\ s # latestSocket =>
            /\ isConnected' = isConnected
            /\ wsRef' = wsRef
            /\ ~last'.onClose
            /\ NoTimeoutChange

\* C26: a close event of a socket that is not the current socket any more,
\* the hook having constructed another one since, changes neither isConnected nor wsRef, invokes no onClose and schedules no
\* reconnect; at most one reconnect timer is pending and at most one socket
\* is CONNECTING or OPEN
C26_Claimed_StaleCloseIgnored ==
    [](AtMostOneLive /\ AtMostOneTimeout) /\ [][StaleCloseIgnored]_vars

----------------------------------------------------------------------------
(* Properties of LocationProvider (SpecProvider) *)

\* at most one socket is CONNECTING or OPEN and wsRef refers to it
OneSocketAndCurrent == AtMostOneLive /\ \A s \in Sockets : Live(s) => wsRef = s

\* a close event of a socket replaced by a newer one leaves wsRef and the
\* reconnect timers alone
ReplacedCloseIgnored ==
    \A s \in Sockets :
        ClosedBy(s) /\ s # latestSocket => wsRef' = wsRef /\ NoTimeoutChange

\* after disconnect() no timer is set and only connect() constructs a socket
NoReconnectAfterDisconnect ==
    ~shouldReconnectRef =>
        /\ pendingTimeouts' \subseteq pendingTimeouts
        /\ latestSocket' # latestSocket => calls' = calls + 1

\* C27: at most one WebSocket of the provider is CONNECTING or OPEN and wsRef
\* refers to it; the close event of a replaced socket neither clears wsRef
\* nor schedules a connection; after disconnect() no reconnect is attempted
\* until connect() is called
C27_Claimed_OneSocket ==
    /\ []OneSocketAndCurrent
    /\ [][ReplacedCloseIgnored /\ NoReconnectAfterDisconnect]_vars

====
